---- MODULE Spec2Model ----
(***************************************************************************)
(* Model of the data-processing pipeline of rawbify-backend:               *)
(* ProcessingService.process_data and its helpers (_process_with_ai,       *)
(* _get_ai_response, _apply_ai_logic), the user store it reads and the     *)
(* job ledger (r_processing_jobs) it writes through a SQLAlchemy session.  *)
(*                                                                         *)
(* Texts (error messages, summaries, cell values) are sequences of string  *)
(* tokens, so that prefixing, formatting and containment are computed.     *)
(* An optional value (Python None or a value) is a sequence of length <= 1.*)
(***************************************************************************)
EXTENDS Integers, Sequences, FiniteSets, TLC

\* ------------------------------------------------------------------ constants

ADMIN_USER_ID == "user_admin"

\* the Trial V1 ingestion cap: "if len(df) > 1000"
RowCap == 1000

\* ------------------------------------------------------------------ texts

None == <<>>
Some(x) == <<x>>
IsNone(o) == Len(o) = 0
IsSome(o) == Len(o) = 1
The(o) == o[1]

\* text `sub` occurs in text `t` (Python: sub in t), token-wise
Contains(t, sub) ==
    \E i \in 1..(Len(t) + 1) :
        /\ i + Len(sub) - 1 <= Len(t)
        /\ SubSeq(t, i, i + Len(sub) - 1) = sub

\* str(e) of the faults the pipeline meets
E_UNSUPPORTED == <<"Unsupported file format">>
E_TOO_LARGE == <<"File too large. Maximum 1000 rows allowed for Trial V1.">>
E_PARSE == <<"No columns to parse from file">>
E_DB == <<"(sqlite3.OperationalError) database is locked">>
E_GENERATION == <<"Connection error.">>
E_KEY == <<"'margin_pct'">>
E_PROFILE == <<"unhashable type: 'list'">>
E_PROMPT == <<"'shape'">>
E_NO_SHAPE == <<"'int' object has no attribute 'shape'">>
E_NO_SETITEM == <<"'int' object does not support item assignment">>

\* ------------------------------------------------------------------ datasets

\* a pandas DataFrame: a row count and an ordered list of named columns; the
\* content of a column is a text (user data is <<"data", name>>)
Column(n, v) == [name |-> n, val |-> v]
Frame(r, cs) == [kind |-> "frame", rows |-> r, columns |-> cs]
\* the int 5, a value that is no DataFrame
NotAFrame == [kind |-> "int", rows |-> 0, columns |-> <<>>]

ColNames(df) == [i \in 1..Len(df.columns) |-> df.columns[i].name]
HasCol(df, c) == \E i \in 1..Len(df.columns) : df.columns[i].name = c
ColVal(df, c) ==
    df.columns[CHOOSE i \in 1..Len(df.columns) : df.columns[i].name = c].val

\* df[c] = v for a scalar v: an existing column c is overwritten in place, a
\* new one is appended as the last column
SetCol(df, c, v) ==
    IF HasCol(df, c)
    THEN [df EXCEPT !.columns =
            [i \in 1..Len(@) |-> IF @[i].name = c THEN Column(c, v) ELSE @[i]]]
    ELSE [df EXCEPT !.columns = Append(@, Column(c, v))]

\* df.rename(columns={old: new}): a new frame, the labels equal to old
\* replaced, whether or not another column has the label new already
Rename(df, old, new) ==
    [df EXCEPT !.columns =
        [i \in 1..Len(@) |-> IF @[i].name = old THEN Column(new, @[i].val) ELSE @[i]]]

\* pd.read_csv of a text written by to_csv: the first line gives the labels,
\* and a label seen k times before in the line gets the suffix .k
ReadCsv(csv) ==
    LET seen(i) == Cardinality({j \in 1..(i - 1) : csv.header[j] = csv.header[i]})
        label(i) == IF seen(i) = 0 THEN csv.header[i]
                    ELSE csv.header[i] \o "." \o ToString(seen(i))
    IN  Frame(csv.records,
              [i \in 1..Len(csv.header) |-> Column(label(i), csv.cells[i])])

\* processed_df.to_csv(index=False): a header row, then one record per row
ToCsv(df) ==
    [header |-> ColNames(df),
     records |-> df.rows,
     cells |-> [i \in 1..Len(df.columns) |-> df.columns[i].val]]

\* ------------------------------------------------------------------ generated code

\* A code text is a sequence of tokens: fence markers, whitespace, and
\* statements.  The statements the model knows, by their source text:
S_MARGIN == "df['profit_margin'] = ((df['revenue'] - df['cost']) / df['revenue'] * 100).round(2)"
S_ZERO_COST == "df['cost'] = 0"
S_FILTER == "df = df[df['revenue'] > 100]"
S_MISSING == "df['margin'] = df['margin_pct'] * 2"
S_REBIND == "df = 5"
S_EXIT == "import sys; sys.exit()"
S_AI_ERROR == "df['ai_error'] = 'AI failed'"
S_OPEN == "df['leak'] = open('/etc/passwd').read()"
S_LOOP == "while True: pass"
S_RENAME == "df = df.rename(columns={'cost': 'revenue'})"
\* the markdown fence markers (three backquotes, with or without a language tag)
FENCE_PY == "[fence]python"
FENCE == "[fence]"
NL == "\n"

Whitespace == {NL, " "}

\* what executing one statement does to the name df
Stmt(o, c, v) == [op |-> o, col |-> c, val |-> v]
Effect(t) ==
    CASE t = S_MARGIN -> Stmt("set", "profit_margin", <<"derived">>)
      [] t = S_ZERO_COST -> Stmt("set", "cost", <<"0">>)
      [] t = S_AI_ERROR -> Stmt("set", "ai_error", <<"AI failed">>)
      [] t = S_FILTER -> Stmt("filter", "", <<>>)
      [] t = S_MISSING -> Stmt("raise", "", E_KEY)
      [] t = S_REBIND -> Stmt("rebind", "", <<>>)
      [] t = S_EXIT -> Stmt("exit", "", <<>>)
      [] t = S_OPEN -> Stmt("set", "leak", <<"content of /etc/passwd">>)
      [] t = S_LOOP -> Stmt("loop", "", <<>>)
      [] t = S_RENAME -> Stmt("rename", "cost", "revenue")
      [] OTHER -> Stmt("raise", "", <<"name '", t, "' is not defined">>)

\* exec_globals of _apply_ai_logic: the global names it binds and the keys of
\* its '__builtins__' dictionary
ExecGlobals == {"df", "pd", "np", "math", "statistics"}
ExecBuiltins ==
    {"len", "str", "int", "float", "round", "max", "min", "sum", "abs", "pow",
     "divmod", "complex", "bin", "hex", "oct", "chr", "ord", "range",
     "enumerate", "zip", "filter", "map", "reversed", "sorted", "any", "all",
     "isinstance", "issubclass", "hasattr", "getattr", "setattr", "delattr",
     "property", "super", "object", "type", "bool", "list", "tuple", "dict",
     "set", "frozenset", "slice", "memoryview", "bytearray", "bytes", "open",
     "print", "input", "format", "vars", "dir", "help", "hash", "id",
     "callable", "compile", "eval", "exec", "__import__"}

\* the names a statement looks up when it runs (an import statement calls
\* __import__ of the builtins)
Names(t) ==
    CASE t \in {S_MARGIN, S_ZERO_COST, S_AI_ERROR, S_FILTER, S_MISSING, S_RENAME} -> {"df"}
      [] t = S_OPEN -> {"df", "open"}
      [] t = S_EXIT -> {"__import__"}
      [] OTHER -> {}

\* str.strip(): leading and trailing whitespace tokens removed
Strip(t) ==
    LET solid == {i \in 1..Len(t) : t[i] \notin Whitespace}
    IN  IF solid = {} THEN <<>>
        ELSE SubSeq(t, CHOOSE i \in solid : \A j \in solid : i <= j,
                       CHOOSE i \in solid : \A j \in solid : i >= j)

\* str.replace(old, ""): every occurrence of the token removed; the bare
\* marker is a prefix of the tagged one, so removing it from a tagged marker
\* leaves the tag
RECURSIVE Remove(_, _)
Remove(t, old) ==
    IF t = <<>> THEN <<>>
    ELSE IF Head(t) = old THEN Remove(Tail(t), old)
    ELSE IF old = FENCE /\ Head(t) = FENCE_PY THEN <<"python">> \o Remove(Tail(t), old)
    ELSE <<Head(t)>> \o Remove(Tail(t), old)

\* exec(code, exec_globals): the statements run in order against the name df.
\* env.copy is the object result_df refers to, env.cur the value bound to df,
\* env.same whether df is still bound to that object (statements mutate in
\* place until the code rebinds df).
RECURSIVE Exec(_, _, _)
Exec(code, i, env) ==
    IF i > Len(code) THEN [env EXCEPT !.status = "ok"]
    ELSE IF code[i] \in Whitespace THEN Exec(code, i + 1, env)
    ELSE IF ~(Names(code[i]) \subseteq ExecGlobals \cup ExecBuiltins)
    THEN [env EXCEPT !.status = "raise",
                     !.err = <<"name '",
                               CHOOSE n \in Names(code[i]) \ (ExecGlobals \cup ExecBuiltins) : TRUE,
                               "' is not defined">>]
    ELSE LET e == Effect(code[i])
             env_ == [env EXCEPT !.reached = @ \cup Names(code[i])] IN
        CASE e.op = "set" ->
                IF env_.cur.kind # "frame"
                THEN [env_ EXCEPT !.status = "raise", !.err = E_NO_SETITEM]
                ELSE LET d == SetCol(env_.cur, e.col, e.val) IN
                     Exec(code, i + 1,
                          [env_ EXCEPT !.cur = d,
                                      !.copy = IF env_.same THEN d ELSE @])
          [] e.op = "filter" ->
                IF env_.cur.kind # "frame"
                THEN [env_ EXCEPT !.status = "raise",
                                 !.err = <<"'int' object is not subscriptable">>]
                ELSE Exec(code, i + 1,
                          [env_ EXCEPT !.cur = Frame(env_.cur.rows \div 2, env_.cur.columns),
                                      !.same = FALSE])
          [] e.op = "rename" ->
                IF env_.cur.kind # "frame"
                THEN [env_ EXCEPT !.status = "raise",
                                 !.err = <<"'int' object has no attribute 'rename'">>]
                ELSE Exec(code, i + 1,
                          [env_ EXCEPT !.cur = Rename(env_.cur, e.col, e.val),
                                      !.same = FALSE])
          [] e.op = "rebind" ->
                Exec(code, i + 1, [env_ EXCEPT !.cur = NotAFrame, !.same = FALSE])
          [] e.op = "exit" -> [env_ EXCEPT !.status = "exit"]
          \* exec is called without a time limit: the loop keeps running
          [] e.op = "loop" -> [env_ EXCEPT !.status = "hang"]
          [] OTHER -> [env_ EXCEPT !.status = "raise", !.err = e.val]

\* (the copy made before exec taken as the result, df not read back)
ResultFrameCopy(run) == run.copy

\* result_df = exec_globals['df']: what the name df is bound to after exec
ResultFrame(run) == run.cur

\* (result_df bound to the caller's frame itself, no copy taken)
FrameAlias(df) == [obj |-> "arg", val |-> df]

\* df.copy(): a new object with the same content
FrameCopy(df) == [obj |-> "copy", val |-> df]

\* ProcessingService._apply_ai_logic: [how |-> "return", df |-> the frame
\* returned] or [how |-> "raise" (an Exception leaves the function) or "exit"
\* (a BaseException does), err |-> its text] or [how |-> "hang"] (exec does
\* not come back); fault is the text of the fault
\* the generated code raised, if it raised one; reached the names the code
\* looked up; arg the content of the caller's frame after the call (in-place
\* changes of result_df show in it when result_df is that very object)
ApplyAiLogic(df, code) ==
    LET result_df == FrameCopy(df)
        Arg(d) == IF result_df.obj = "arg" THEN d ELSE df
    IN  IF Strip(code) = <<>>
        THEN LET d == SetCol(result_df.val, "ai_processed", <<"No code generated">>)
             IN  [how |-> "return", err |-> <<>>, fault |-> None, df |-> d,
                  reached |-> {}, arg |-> Arg(d)]
        ELSE LET run == Exec(code, 1, [copy |-> result_df.val, cur |-> result_df.val,
                                       same |-> TRUE, status |-> "ok", err |-> <<>>,
                                       reached |-> {}])
             IN  CASE run.status = "exit" ->
                        [how |-> "exit", err |-> <<>>, fault |-> Some(<<"SystemExit">>),
                         df |-> run.copy, reached |-> run.reached, arg |-> Arg(run.copy)]
                   [] run.status = "hang" ->
                        [how |-> "hang", err |-> <<>>, fault |-> None,
                         df |-> run.copy, reached |-> run.reached, arg |-> Arg(run.copy)]
                   [] run.status = "raise" ->
                        LET d == SetCol(run.copy, "execution_error",
                                        <<"Code error: ">> \o run.err)
                        IN  [how |-> "return", err |-> <<>>, fault |-> Some(run.err),
                             df |-> d, reached |-> run.reached, arg |-> Arg(d)]
                   [] ResultFrame(run).kind # "frame" ->
                        \* result_df.shape raises; the handler's item
                        \* assignment on the int raises again
                        [how |-> "raise", err |-> E_NO_SETITEM, fault |-> Some(E_NO_SHAPE),
                         df |-> run.copy, reached |-> run.reached, arg |-> Arg(run.copy)]
                   [] OTHER -> [how |-> "return", err |-> <<>>, fault |-> None,
                                df |-> ResultFrame(run), reached |-> run.reached,
                                arg |-> Arg(run.copy)]

\* the cleaning of the raw response in _get_ai_response
Sanitize(raw) ==
    LET code == Strip(raw)
    IN  IF code # <<>> /\ Head(code) = FENCE_PY
        THEN Strip(Remove(Remove(code, FENCE_PY), FENCE))
        ELSE IF code # <<>> /\ Head(code) = FENCE
        THEN Strip(Remove(code, FENCE))
        ELSE code

\* json.dumps(processing_summary): a JSON array of quoted strings
RECURSIVE JsonItems(_)
JsonItems(list) ==
    IF list = <<>> THEN <<>>
    ELSE <<"\"">> \o Head(list) \o <<"\"">>
         \o (IF Len(list) > 1 THEN <<", ">> ELSE <<>>) \o JsonItems(Tail(list))

JsonDumps(list) == <<"[">> \o JsonItems(list) \o <<"]">>

\* ------------------------------------------------------------------ helpers of process_data

\* str.lower() and str.endswith() on a file name
LowerToken(t) ==
    CASE t = "SALES" -> "sales"
      [] t = ".XLSX" -> ".xlsx"
      [] OTHER -> t
Lower(name) == [i \in 1..Len(name) |-> LowerToken(name[i])]
EndsWith(name, suffix) == name # <<>> /\ name[Len(name)] = suffix

IsCsv(name) == EndsWith(Lower(name), ".csv")
IsExcel(name) == EndsWith(Lower(name), ".xlsx") \/ EndsWith(Lower(name), ".xls")

\* the upload limit of the endpoint: settings.MAX_FILE_SIZE
MAX_FILE_SIZE == 10 * 1024 * 1024

\* file.filename.lower().split('.')[-1] if '.' in file.filename else '': the
\* part of the name after its last dot
AfterDot(t) ==
    CASE t = ".csv" -> "csv"
      [] t = ".xlsx" -> "xlsx"
      [] t = ".xls" -> "xls"
      [] t = ".txt" -> "txt"
      [] OTHER -> ""
FileExtension(name) == IF name = <<>> THEN "" ELSE AfterDot(Lower(name)[Len(name)])

\* (an endpoint that looks at the size only)
EndpointAcceptsAnyName(name, size) == size <= MAX_FILE_SIZE

\* the two checks of the endpoint that come before the call of process_data
EndpointAccepts(name, size) ==
    /\ ~(size > MAX_FILE_SIZE)
    /\ FileExtension(name) \in {"xlsx", "xls", "csv"}

\* (a lookup that forgets the is_active filter)
UserExistsAnyStatus(store, u) == u \in DOMAIN store

\* db.query(User).filter(User.user_id == user_id, User.is_active == True).first() is not None
UserExists(store, u) == u \in DOMAIN store /\ store[u].is_active

\* (no short cut: the administrator is looked up like everyone else)
IsAdminNever(u) == FALSE

\* the admin short cut of process_data
IsAdmin(u) == u = ADMIN_USER_ID

\* (the cap off by one, either way)
TooLargeLax(df) == df.rows > RowCap + 1
TooLargeStrict(df) == df.rows >= RowCap

\* len(df) > 1000
TooLarge(df) == df.rows > RowCap

\* the processing summary built after serialization
ProcessingSummary(df, prompt, ai_summary) ==
    << <<"Processed ", ToString(df.rows), " records with AI">>,
       <<"User request: ", prompt>>,
       <<"AI processing: ">> \o ai_summary,
       <<"Ready for download">> >>

\* (the handler returning str(e) as it is)
FileProcessingErrorBare(text) == text

\* the text returned by the inner handler of process_data
FileProcessingError(text) == <<"File processing error: ">> \o text
\* the text returned by the outer handler of process_data
ProcessingError(text) == <<"Processing error: ">> \o text

\* (a handler that records the error and leaves the status as it is)
MarkFailedNoStatus(job, text) == [job EXCEPT !.error_message = Some(text)]

\* the two assignments of the inner handler: job.status = 'failed' and
\* job.error_message = str(e)
MarkFailed(job, text) == [job EXCEPT !.status = "failed", !.error_message = Some(text)]

\* (a commit that writes nothing to the row)
FlushNothing(row, obj, dirty) == row

\* db.commit() that succeeds: the attributes assigned since the last commit or
\* rollback are written to the row
Flush(row, obj, dirty) == [a \in DOMAIN row |-> IF a \in dirty THEN obj[a] ELSE row[a]]

\* ------------------------------------------------------------------ inputs

UserIds == {ADMIN_USER_ID, "user_alice", "user_bob", "user_ghost"}

\* the user stores the model starts from: alice active, bob deactivated, ghost
\* unknown, and the administrator identifier without an entry or with an
\* inactive one
UserRow(active) == [is_active |-> active]
UserStores ==
    { [u \in {"user_alice", "user_bob"} |-> UserRow(u = "user_alice")],
      [u \in {"user_alice", "user_bob", ADMIN_USER_ID} |-> UserRow(u = "user_alice")] }

FileNames == { <<"sales", ".csv">>, <<"SALES", ".XLSX">>, <<"notes", ".txt">> }

Prompts == {"add profit margin column", "keep rows with revenue over 100"}

ApiKeys == {"", "sk-test"}

UserColumns == <<Column("revenue", <<"data", "revenue">>), Column("cost", <<"data", "cost">>)>>
\* an upload whose own columns carry the names the pipeline uses for markers
MarkerNamedColumns ==
    UserColumns \o <<Column("done", <<"data", "done">>),
                     Column("ai_error", <<"data", "ai_error">>),
                     Column("execution_error", <<"data", "execution_error">>),
                     Column("ai_processed", <<"data", "ai_processed">>)>>

RowCounts == {2, RowCap, RowCap + 1}

\* what pd.read_csv / pd.read_excel can yield for the uploaded bytes
Datasets == {Frame(n, cs) : n \in RowCounts, cs \in {UserColumns, MarkerNamedColumns}}

\* what the generation service can answer
RawResponses ==
    { <<FENCE_PY, NL, S_MARGIN, NL, FENCE>>,
      <<FENCE_PY, NL, S_MARGIN, NL, FENCE, NL, FENCE_PY, NL, S_ZERO_COST, NL, FENCE>>,
      <<NL, FENCE, NL, S_MARGIN, NL, FENCE, NL>>,
      <<FENCE_PY, NL, FENCE>>,
      <<S_MARGIN>>,
      <<S_FILTER>>,
      <<S_MISSING>>,
      <<S_ZERO_COST, NL, S_MISSING>>,
      <<S_REBIND>>,
      <<S_EXIT>>,
      <<S_OPEN>>,
      <<S_LOOP>>,
      <<S_RENAME>>,
      <<NL>> }

\* ------------------------------------------------------------------ state

\* the invocations the model follows: r1 alone (the jobs of earlier
\* invocations are in the ledger it starts from), or r1 and r2 running in two
\* worker processes at once
Reqs == {"r1", "r2"}

VARIABLES
    users,      \* r_users: user_id -> row
    jobs,       \* r_processing_jobs as committed: sequence of rows, id = index
    settings,   \* the settings object
    dbFaults,   \* whether the database refuses operations in this run
    req,        \* per invocation of process_data: its locals and position
    accounts,   \* r_users as the account services use it: a set of rows
    waitlist,   \* r_waitlist as committed: a set of rows
    mail,       \* the mail credentials and what the mail server has accepted
    calls       \* per call of an account or waitlist service: its locals and position

vars == <<users, jobs, settings, dbFaults, req, accounts, waitlist, mail, calls>>

\* the state of the account and waitlist services
services == <<accounts, waitlist, mail, calls>>

\* the callers of the account and waitlist services, one call each, in worker
\* processes of their own
Callers == {"c1", "c2", "c3"}

\* a caller that has not called yet
NoCall ==
    [pc |-> "idle", arg |-> "", passed |-> FALSE, listed |-> FALSE,
     seen |-> <<>>, wrote |-> FALSE, result |-> <<>>]

\* no account or waitlist service is called in this run
ServicesQuiet ==
    /\ accounts = {}
    /\ waitlist = {}
    /\ mail = [configured |-> FALSE, outbox |-> <<>>]
    /\ calls = [c \in Callers |-> NoCall]

JobRow(id, u, f, p) ==
    [id |-> id, user_id |-> u, file_name |-> f, prompt |-> p,
     status |-> "processing", completed_at |-> FALSE,
     processing_summary |-> None, error_message |-> None]

Result(ok, d, s, e) == [success |-> ok, data |-> d, processingSummary |-> s, error |-> e]

\* (a failure dictionary whose error key was left None)
FailureNoText(text) == Result(FALSE, None, None, None)

\* the failure dictionary of the three handlers and of the authorization
Failure(text) == Result(FALSE, None, None, Some(text))

\* the locals of an invocation that has not started
Idle ==
    [pc |-> "idle", user_id |-> "", file_name |-> <<>>, prompt |-> "",
     job |-> None, dirty |-> {}, input |-> None, df |-> None, raw |-> None,
     ai |-> None, processed |-> None, ai_summary |-> <<>>, data |-> None,
     summary |-> None, exc |-> <<>>, result |-> None, raised |-> FALSE,
     lookups |-> 0, genCalls |-> 0, execRuns |-> 0, faults |-> {},
     execFault |-> None, jobsAtStart |-> <<>>, reached |-> {}, applied |-> None,
     stages |-> <<>>, spin |-> FALSE, via |-> "", file_size |-> 0, http |-> 0]

\* the ledgers the invocation can meet: empty, or holding a completed and a
\* failed job of earlier invocations
EarlierLedgers ==
    { <<>>,
      << [JobRow(1, "user_alice", <<"sales", ".csv">>, "add profit margin column")
            EXCEPT !.status = "completed", !.completed_at = TRUE,
                   !.processing_summary =
                      Some(JsonDumps(ProcessingSummary(
                               Frame(2, UserColumns), "add profit margin column",
                               <<"AI generated pandas code">>)))],
         [JobRow(2, ADMIN_USER_ID, <<"notes", ".txt">>, "add profit margin column")
            EXCEPT !.status = "failed", !.error_message = Some(E_UNSUPPORTED)] >> }

\* the locals of an invocation that is never made in this run
Off == [Idle EXCEPT !.pc = "off"]

Setup ==
    /\ users \in UserStores
    /\ jobs \in EarlierLedgers
    /\ settings \in {[OPENAI_API_KEY |-> k] : k \in ApiKeys}
    /\ req = [r \in Reqs |-> IF r = "r1" THEN Idle ELSE Off]
    /\ ServicesQuiet

\* a database that serves every query and commit
Init == Setup /\ dbFaults = FALSE

\* a database whose queries and commits may raise
InitDbFaults == Setup /\ dbFaults = TRUE

\* two requests arrive at two worker processes: the same store and settings,
\* an empty ledger, a database that serves
InitConcurrent ==
    /\ users = [u \in {"user_alice", "user_bob"} |-> UserRow(u = "user_alice")]
    /\ jobs = <<>>
    /\ settings = [OPENAI_API_KEY |-> "sk-test"]
    /\ req = [r \in Reqs |-> Idle]
    /\ dbFaults = FALSE
    /\ ServicesQuiet

\* whether this run is the one with two requests
Concurrent == \A r \in Reqs : req[r].pc # "off"

\* what the requests of a run carry, what their uploads parse to and what the
\* generation service answers them (fewer kinds when two requests run at once)
RequestsNow ==
    IF Concurrent
    THEN {<<ADMIN_USER_ID, <<"sales", ".csv">>, "add profit margin column">>,
          <<"user_alice", <<"sales", ".csv">>, "keep rows with revenue over 100">>,
          <<"user_alice", <<"notes", ".txt">>, "add profit margin column">>,
          <<"user_bob", <<"sales", ".csv">>, "add profit margin column">>}
    ELSE UserIds \X FileNames \X Prompts
DatasetsNow == IF Concurrent THEN {Frame(2, UserColumns)} ELSE Datasets
\* what arrives at the endpoint: the names and sizes of the uploads
UploadNames ==
    { <<"sales", ".csv">>, <<"SALES", ".XLSX">>, <<"old", ".xls">>,
      <<"notes", ".txt">>, <<"csv">> }
UploadSizes == {MAX_FILE_SIZE, MAX_FILE_SIZE + 1}
UploadsNow ==
    IF Concurrent
    THEN {<<"user_alice", <<"sales", ".csv">>, "add profit margin column", MAX_FILE_SIZE>>,
          <<"user_alice", <<"notes", ".txt">>, "add profit margin column", MAX_FILE_SIZE>>}
    ELSE UserIds \X UploadNames \X {"add profit margin column"} \X UploadSizes

RawResponsesNow ==
    IF Concurrent THEN {<<S_MARGIN>>, <<S_FILTER>>, <<S_LOOP>>} ELSE RawResponses

\* the primary key of the row a commit of the invocation's job object updates
\* (a mistaken key: the newest row of the ledger)
JobKeyLatest(s) == Len(jobs)

\* the primary key of the row a commit of the invocation's job object updates
JobKey(s) == The(s.job).id

\* the outcomes of one database operation: TRUE served, FALSE raised
DbOutcomes == IF dbFaults THEN BOOLEAN ELSE {TRUE}

\* the stage of the pipeline that runs at a position of process_data (none at
\* the entry of _process_with_ai, at the commit that ends the completed
\* update, and at the return)
StageOf(pc) ==
    CASE pc = "auth" -> <<"authorization">>
      [] pc = "create" -> <<"job creation">>
      [] pc = "parse" -> <<"parsing">>
      [] pc = "cap" -> <<"row cap">>
      [] pc = "profile" -> <<"profiling">>
      [] pc = "prompt" -> <<"prompt building">>
      [] pc = "generate" -> <<"generation">>
      [] pc = "sanitize" -> <<"sanitizing">>
      [] pc = "apply" -> <<"sandbox">>
      [] pc = "serialize" -> <<"serialization">>
      [] pc \in {"complete", "fail"} -> <<"terminal update">>
      [] OTHER -> <<>>

\* a step of invocation r: its locals become rec, and the stage that ran is
\* added to the invocation's history
Set(r, rec) ==
    req' = [req EXCEPT ![r] = [rec EXCEPT !.stages = req[r].stages \o StageOf(req[r].pc)]]

\* the handler of _process_with_ai: the caller's frame gets the marker column
AiFallback(s, err) ==
    LET d == SetCol(The(s.df), "done", <<"AI Error: ">> \o err)
    IN  [s EXCEPT !.df = Some(d), !.processed = Some(d),
                  !.ai_summary = <<"AI processing failed: ">> \o err,
                  !.pc = "serialize"]

\* (a handler that calls the service again)
GenerationRetried(s, err) == [s EXCEPT !.pc = "generate"]

\* the handler of _get_ai_response: the fallback code and the error text as
\* explanation are returned, and _process_with_ai goes on to _apply_ai_logic
GenerationFailed(s, err) ==
    [s EXCEPT !.pc = "apply",
              !.ai = Some([code |-> <<S_AI_ERROR>>,
                           explanation |-> <<"AI processing error: ">> \o err])]

\* ------------------------------------------------------------------ actions

\* process_data is called by a caller other than the endpoint, with a session
\* of its own
Start(r) ==
    /\ req[r].pc = "idle"
    /\ \E q \in RequestsNow :
        Set(r, [Idle EXCEPT !.pc = "auth", !.user_id = q[1], !.file_name = q[2],
                            !.prompt = q[3], !.jobsAtStart = jobs, !.via = "call"])
    /\ UNCHANGED <<users, jobs, settings, dbFaults, services>>

\* POST /process-data: the endpoint checks the size and the extension of the
\* upload and answers HTTP 400, or reads the file and calls process_data
Receive(r) ==
    /\ req[r].pc = "idle"
    /\ \E q \in UploadsNow :
        IF EndpointAccepts(q[2], q[4])
        THEN Set(r, [Idle EXCEPT !.pc = "auth", !.user_id = q[1], !.file_name = q[2],
                                 !.prompt = q[3], !.jobsAtStart = jobs,
                                 !.via = "endpoint", !.file_size = q[4]])
        ELSE Set(r, [Idle EXCEPT !.pc = "done", !.file_name = q[2],
                                 !.jobsAtStart = jobs, !.via = "endpoint",
                                 !.file_size = q[4], !.http = 400])
    /\ UNCHANGED <<users, jobs, settings, dbFaults, services>>

Authorize(r) ==
    LET s == req[r] IN
    /\ s.pc = "auth"
    /\ IF IsAdmin(s.user_id)
       THEN Set(r, [s EXCEPT !.pc = "create"])
       ELSE \E ok \in DbOutcomes :
            IF ~ok
            THEN Set(r, [s EXCEPT !.pc = "ret", !.faults = @ \cup {"query"},
                                  !.lookups = @ + 1,
                                  !.result = Some(Failure(ProcessingError(E_DB)))])
            ELSE IF UserExists(users, s.user_id)
            THEN Set(r, [s EXCEPT !.pc = "create", !.lookups = @ + 1])
            ELSE Set(r, [s EXCEPT !.pc = "ret", !.lookups = @ + 1,
                                  !.result = Some(Failure(<<"Invalid user ID">>))])
    /\ UNCHANGED <<users, jobs, settings, dbFaults, services>>

CreateJob(r) ==
    LET s == req[r]
        row == JobRow(Len(jobs) + 1, s.user_id, s.file_name, s.prompt)
    IN
    /\ s.pc = "create"
    /\ \E ok \in DbOutcomes :
        IF ok
        THEN /\ jobs' = Append(jobs, row)
             /\ Set(r, [s EXCEPT !.pc = "parse", !.job = Some(row)])
        ELSE /\ jobs' = jobs
             /\ Set(r, [s EXCEPT !.pc = "ret", !.faults = @ \cup {"create"},
                                 !.result = Some(Failure(ProcessingError(E_DB)))])
    /\ UNCHANGED <<users, settings, dbFaults, services>>

Parse(r) ==
    LET s == req[r] IN
    /\ s.pc = "parse"
    /\ IF IsCsv(s.file_name) \/ IsExcel(s.file_name)
       THEN \/ \E d \in DatasetsNow :
                Set(r, [s EXCEPT !.pc = "cap", !.input = Some(d), !.df = Some(d)])
            \/ Set(r, [s EXCEPT !.pc = "fail", !.exc = E_PARSE,
                                 !.faults = @ \cup {"parse"}])
       ELSE Set(r, [s EXCEPT !.pc = "fail", !.exc = E_UNSUPPORTED,
                             !.faults = @ \cup {"format"}])
    /\ UNCHANGED <<users, jobs, settings, dbFaults, services>>

CheckRows(r) ==
    LET s == req[r] IN
    /\ s.pc = "cap"
    /\ IF TooLarge(The(s.df))
       THEN Set(r, [s EXCEPT !.pc = "fail", !.exc = E_TOO_LARGE,
                             !.faults = @ \cup {"cap"}])
       ELSE Set(r, [s EXCEPT !.pc = "key"])
    /\ UNCHANGED <<users, jobs, settings, dbFaults, services>>

\* entry of _process_with_ai
KeyCheck(r) ==
    LET s == req[r] IN
    /\ s.pc = "key"
    /\ IF settings.OPENAI_API_KEY = ""
       THEN LET d == SetCol(The(s.df), "done", <<"done">>) IN
            Set(r, [s EXCEPT !.pc = "serialize", !.df = Some(d), !.processed = Some(d),
                             !.ai_summary = <<"No AI key configured - added 'done' column">>])
       ELSE Set(r, [s EXCEPT !.pc = "profile"])
    /\ UNCHANGED <<users, jobs, settings, dbFaults, services>>

Profile(r) ==
    LET s == req[r] IN
    /\ s.pc = "profile"
    /\ \/ Set(r, [s EXCEPT !.pc = "prompt"])
       \/ Set(r, [AiFallback(s, E_PROFILE) EXCEPT !.faults = @ \cup {"profile"}])
    /\ UNCHANGED <<users, jobs, settings, dbFaults, services>>

BuildPrompt(r) ==
    LET s == req[r] IN
    /\ s.pc = "prompt"
    /\ \/ Set(r, [s EXCEPT !.pc = "generate"])
       \/ Set(r, [AiFallback(s, E_PROMPT) EXCEPT !.faults = @ \cup {"prompt"}])
    /\ UNCHANGED <<users, jobs, settings, dbFaults, services>>

\* the call of _get_ai_response, up to the service's answer
Generate(r) ==
    LET s == req[r] IN
    /\ s.pc = "generate"
    /\ \/ \E raw \in RawResponsesNow :
            Set(r, [s EXCEPT !.pc = "sanitize", !.genCalls = @ + 1, !.raw = Some(raw)])
       \/ Set(r, [GenerationFailed(s, E_GENERATION) EXCEPT
                        !.genCalls = @ + 1, !.faults = @ \cup {"generate"}])
    /\ UNCHANGED <<users, jobs, settings, dbFaults, services>>

SanitizeCode(r) ==
    LET s == req[r] IN
    /\ s.pc = "sanitize"
    /\ Set(r, [s EXCEPT !.pc = "apply",
                        !.ai = Some([code |-> Sanitize(The(s.raw)),
                                     explanation |-> <<"AI generated pandas code">>])])
    /\ UNCHANGED <<users, jobs, settings, dbFaults, services>>

Apply(r) ==
    LET s == req[r]
        code == The(s.ai).code
        out == ApplyAiLogic(The(s.df), code)
        ran == IF Strip(code) = <<>> THEN 0 ELSE 1
        seen == IF IsSome(out.fault) THEN {"sandbox"} ELSE {}
        t == [s EXCEPT !.execRuns = @ + ran, !.execFault = out.fault,
                       !.faults = @ \cup seen, !.reached = out.reached,
                       !.df = Some(out.arg),
                       !.applied = Some([how |-> out.how, before |-> The(s.df)])]
    IN
    /\ s.pc = "apply"
    /\ CASE out.how = "return" ->
                Set(r, [t EXCEPT !.pc = "serialize",
                                 !.processed = Some(out.df),
                                 !.ai_summary = The(s.ai).explanation])
         [] out.how = "raise" -> Set(r, AiFallback(t, out.err))
         \* the thread stays inside exec
         [] out.how = "hang" -> Set(r, [t EXCEPT !.pc = "exec"])
         [] OTHER -> Set(r, [t EXCEPT !.pc = "ret", !.raised = TRUE])
    /\ UNCHANGED <<users, jobs, settings, dbFaults, services>>

Serialize(r) ==
    LET s == req[r] IN
    /\ s.pc = "serialize"
    /\ Set(r, [s EXCEPT !.pc = "complete",
                        !.data = Some(ToCsv(The(s.processed))),
                        !.summary = Some(ProcessingSummary(The(s.df), s.prompt,
                                                           s.ai_summary))])
    /\ UNCHANGED <<users, jobs, settings, dbFaults, services>>

\* job.status = 'completed' and the two assignments after it
MarkCompleted(r) ==
    LET s == req[r] IN
    /\ s.pc = "complete"
    /\ Set(r, [s EXCEPT !.pc = "commit",
                        !.job = Some([The(s.job) EXCEPT
                                        !.status = "completed",
                                        !.completed_at = TRUE,
                                        !.processing_summary =
                                            Some(JsonDumps(The(s.summary)))]),
                        !.dirty = @ \cup {"status", "completed_at", "processing_summary"}])
    /\ UNCHANGED <<users, jobs, settings, dbFaults, services>>

\* db.commit() of the completed job, then the success result
CommitCompleted(r) ==
    LET s == req[r]
        id == JobKey(s)
    IN
    /\ s.pc = "commit"
    /\ \E ok \in DbOutcomes :
        IF ok
        THEN /\ jobs' = [jobs EXCEPT ![id] = Flush(@, The(s.job), s.dirty)]
             /\ Set(r, [s EXCEPT !.pc = "ret", !.dirty = {},
                                 !.result = Some(Result(TRUE, s.data, s.summary, None))])
        ELSE /\ jobs' = jobs
             /\ Set(r, [s EXCEPT !.pc = "fail", !.dirty = {}, !.exc = E_DB,
                                 !.faults = @ \cup {"commit"}])
    /\ UNCHANGED <<users, settings, dbFaults, services>>

\* the inner handler of process_data
FailJob(r) ==
    LET s == req[r]
        id == JobKey(s)
        obj == MarkFailed(The(s.job), s.exc)
        dirty == s.dirty \cup {"status", "error_message"}
    IN
    /\ s.pc = "fail"
    /\ \E ok \in DbOutcomes :
        IF ok
        THEN /\ jobs' = [jobs EXCEPT ![id] = Flush(@, obj, dirty)]
             /\ Set(r, [s EXCEPT !.pc = "ret", !.job = Some(obj), !.dirty = {},
                                 !.result = Some(Failure(FileProcessingError(s.exc)))])
        ELSE /\ jobs' = jobs
             /\ Set(r, [s EXCEPT !.pc = "ret", !.job = Some(obj), !.dirty = {},
                                 !.faults = @ \cup {"failcommit"},
                                 !.result = Some(Failure(ProcessingError(E_DB)))])
    /\ UNCHANGED <<users, settings, dbFaults, services>>

\* one more round of generated code that loops for ever: exec has no time
\* limit, so the thread goes on with the loop (spin tells odd rounds from even)
Spin(r) ==
    /\ req[r].pc = "exec"
    /\ Set(r, [req[r] EXCEPT !.spin = ~@])
    /\ UNCHANGED <<users, jobs, settings, dbFaults, services>>

\* process_data returns (or the fault leaves it) and its frame is gone
Return(r) ==
    /\ req[r].pc = "ret"
    /\ req' = [req EXCEPT ![r] = [Idle EXCEPT !.pc = "done"]]
    /\ UNCHANGED <<users, jobs, settings, dbFaults, services>>

Next ==
    \E r \in Reqs :
        \/ Start(r)
        \/ Receive(r)
        \/ Authorize(r)
        \/ CreateJob(r)
        \/ Parse(r)
        \/ CheckRows(r)
        \/ KeyCheck(r)
        \/ Profile(r)
        \/ BuildPrompt(r)
        \/ Generate(r)
        \/ SanitizeCode(r)
        \/ Apply(r)
        \/ Serialize(r)
        \/ MarkCompleted(r)
        \/ CommitCompleted(r)
        \/ FailJob(r)
        \/ Spin(r)
        \/ Return(r)

Spec == Init /\ [][Next]_vars

\* the same program against a database that may raise
DbFaultSpec == InitDbFaults /\ [][Next]_vars

\* two invocations in two worker processes, their steps interleaved
ConcurrentSpec == InitConcurrent /\ [][Next]_vars

\* the thread of each of the two invocations keeps running: a step the
\* invocation can take is taken
FairSpec == ConcurrentSpec /\ \A r \in Reqs : WF_vars(Next /\ req'[r] # req[r])

\* ------------------------------------------------------------------ properties

\* the committed row of the job the invocation created
Row(s) == jobs[The(s.job).id]

InFlight(s) == s.pc \notin {"idle", "done", "off"}

\* C1: a requester that is neither the administrator nor an active user of the
\* store gets a failure result; no job is created for it and the ledger stays
\* as it was when the call started
C1_UnauthorizedNoJob ==
    \A r \in Reqs :
        LET s == req[r] IN
        (/\ InFlight(s)
         /\ s.user_id # ADMIN_USER_ID
         /\ ~(s.user_id \in DOMAIN users /\ users[s.user_id].is_active))
        => /\ jobs = s.jobsAtStart
           /\ IsNone(s.job)
           /\ s.pc \in {"auth", "ret"}
           /\ s.pc = "ret" =>
                /\ ~s.raised
                /\ IsSome(s.result)
                /\ ~The(s.result).success
                /\ IsNone(The(s.result).data)

C1_Witness ==
    \E r \in Reqs :
        /\ req[r].pc = "ret"
        /\ req[r].user_id = "user_bob"
        /\ req[r].result = Some(Failure(<<"Invalid user ID">>))
        /\ Len(jobs) = 2

\* C2: for the administrator identifier the authorization succeeds whatever
\* the user store holds for it (no entry, an inactive entry), the user store
\* is not queried, and a job is created
C2_AdminAlwaysAuthorized ==
    \A r \in Reqs :
        LET s == req[r] IN
        (s.user_id = ADMIN_USER_ID /\ InFlight(s))
        => /\ s.lookups = 0
           /\ s.result # Some(Failure(<<"Invalid user ID">>))
           /\ s.pc \notin {"auth", "create"} =>
                /\ IsSome(s.job)
                /\ Len(jobs) = Len(s.jobsAtStart) + 1
                /\ jobs[Len(jobs)].user_id = ADMIN_USER_ID
                /\ The(s.job).id = Len(jobs)

C2_Witness ==
    \E r \in Reqs :
        /\ req[r].user_id = ADMIN_USER_ID
        /\ ADMIN_USER_ID \in DOMAIN users
        /\ ~users[ADMIN_USER_ID].is_active
        /\ req[r].pc = "parse"
        /\ IsSome(req[r].job)

\* C3: a dataset of more than 1000 rows makes process_data return a failure
\* without data and leaves the request's job failed, whatever the instruction
\* and the credential; the generation service is not called and nothing is
\* executed
C3_RowCapFails ==
    \A r \in Reqs :
        LET s == req[r] IN
        (IsSome(s.input) /\ The(s.input).rows > RowCap)
        => /\ s.genCalls = 0
           /\ s.execRuns = 0
           /\ s.pc \in {"cap", "fail", "ret"}
           /\ s.pc = "ret" =>
                /\ ~s.raised
                /\ IsSome(s.result)
                /\ ~The(s.result).success
                /\ IsNone(The(s.result).data)
                /\ Row(s).status = "failed"

C3_Witness ==
    \E r \in Reqs :
        /\ req[r].pc = "ret"
        /\ IsSome(req[r].input)
        /\ The(req[r].input).rows = RowCap + 1
        /\ settings.OPENAI_API_KEY # ""
        /\ req[r].prompt = "keep rows with revenue over 100"
        /\ Row(req[r]).status = "failed"

\* code made of statements that run on every upload and keep every row
RowPreservingStatements == {S_MARGIN, S_ZERO_COST}
ValidRowPreserving(code) ==
    /\ \E i \in 1..Len(code) : code[i] \in RowPreservingStatements
    /\ \A i \in 1..Len(code) : code[i] \in RowPreservingStatements \cup Whitespace

\* C4: a dataset of at most 1000 rows (1000 included) is not refused by the
\* row cap, and when the generation service answers valid code that filters no
\* rows, the output has as many rows as the input and the job ends completed
C4_RowCountKept ==
    \A r \in Reqs :
        LET s == req[r] IN
        /\ (IsSome(s.input) /\ The(s.input).rows <= RowCap) => "cap" \notin s.faults
        /\ (/\ IsSome(s.input)
            /\ The(s.input).rows <= RowCap
            /\ IsSome(s.raw)
            /\ ValidRowPreserving(Sanitize(The(s.raw))))
           =>
           /\ s.pc # "fail"
           /\ s.pc = "ret" =>
                /\ ~s.raised
                /\ IsSome(s.result)
                /\ The(s.result).success
                /\ The(The(s.result).data).records = The(s.input).rows
                /\ Row(s).status = "completed"

C4_Witness ==
    \E r \in Reqs :
        /\ req[r].pc = "ret"
        /\ IsSome(req[r].input)
        /\ The(req[r].input).rows = RowCap
        /\ req[r].raw = Some(<<FENCE_PY, NL, S_MARGIN, NL, FENCE>>)
        /\ IsSome(req[r].result)
        /\ The(req[r].result).success
        /\ The(The(req[r].result).data).records = RowCap

\* the summary items of a result, and whether one of them contains a text
Mentions(summary, text) == \E i \in 1..Len(summary) : Contains(summary[i], text)

\* the output has the input's columns, names and values, in their places
KeepsInput(out, in) ==
    /\ Len(out.header) >= Len(in.columns)
    /\ \A i \in 1..Len(in.columns) :
        /\ out.header[i] = in.columns[i].name
        /\ out.cells[i] = in.columns[i].val

\* the output has exactly one column more than the input, holding `marker`
OneMoreColumn(out, in, marker) ==
    /\ Len(out.header) = Len(in.columns) + 1
    /\ out.cells[Len(out.header)] = marker

\* C5: when the call of the generation service raises, the job still ends
\* completed and the caller gets a success result whose dataset has one more
\* column than the input, a marker of the failure, and whose summary holds the
\* text of the generation error
C5_GenerationFailureAbsorbed ==
    \A r \in Reqs :
        LET s == req[r] IN
        (s.pc = "ret" /\ "generate" \in s.faults)
        => /\ ~s.raised
           /\ IsSome(s.result)
           /\ The(s.result).success
           /\ Row(s).status = "completed"
           /\ OneMoreColumn(The(The(s.result).data), The(s.input), <<"AI failed">>)
           /\ Mentions(The(The(s.result).processingSummary), E_GENERATION)

\* C6: when the generated code raises in the sandbox (here: an exception that
\* process_data survives, as the KeyError of a missing column), the job ends
\* completed, the caller gets a success result, and the summary returned and
\* the summary stored on the job hold the text of the execution failure
C6_SandboxFaultInSummary ==
    \A r \in Reqs :
        LET s == req[r] IN
        (s.pc = "ret" /\ IsSome(s.execFault) /\ ~s.raised)
        => /\ IsSome(s.result)
           /\ The(s.result).success
           /\ Row(s).status = "completed"
           /\ Mentions(The(The(s.result).processingSummary), The(s.execFault))
           /\ Contains(The(Row(s).processing_summary), The(s.execFault))

\* C7: without a credential the generation service is not called and no code
\* is executed; the output is the input with exactly one marker column
\* appended, every input column and value kept, and the job ends completed
C7_NoCredentialFallback ==
    \A r \in Reqs :
        LET s == req[r] IN
        (/\ settings.OPENAI_API_KEY = ""
         /\ IsSome(s.input)
         /\ The(s.input).rows <= RowCap)
        => /\ s.genCalls = 0
           /\ s.execRuns = 0
           /\ s.pc = "ret" =>
                /\ IsSome(s.result)
                /\ The(s.result).success
                /\ Row(s).status = "completed"
                /\ OneMoreColumn(The(The(s.result).data), The(s.input), <<"done">>)
                /\ KeepsInput(The(The(s.result).data), The(s.input))

\* the text of the ingestion error of an invocation that met one
IngestionFailed(s) == s.faults \cap {"format", "cap"} # {}
IngestionError(s) == IF "format" \in s.faults THEN E_UNSUPPORTED ELSE E_TOO_LARGE

\* C8 (as claimed): when ingestion fails the job is failed and the error text
\* returned to the caller is the ingestion error's text itself, the same text
\* as the job's stored error message
C8_ErrorVerbatim ==
    \A r \in Reqs :
        LET s == req[r] IN
        (s.pc = "ret" /\ IngestionFailed(s))
        => /\ Row(s).status = "failed"
           /\ Row(s).error_message = Some(IngestionError(s))
           /\ The(s.result).error = Row(s).error_message

\* C8 (amended): when ingestion fails the job is failed, its stored error
\* message is the ingestion error's text, and the error text returned to the
\* caller is that text after the prefix "File processing error: "
C8_ErrorPrefixed ==
    \A r \in Reqs :
        LET s == req[r] IN
        (s.pc = "ret" /\ IngestionFailed(s))
        => /\ Row(s).status = "failed"
           /\ Row(s).error_message = Some(IngestionError(s))
           /\ IsSome(s.result)
           /\ ~The(s.result).success
           /\ The(s.result).error
                = Some(<<"File processing error: ">> \o IngestionError(s))

C8_Witness ==
    \E r \in Reqs :
        /\ req[r].pc = "ret"
        /\ req[r].faults = {"cap"}
        /\ Row(req[r]).error_message = Some(E_TOO_LARGE)
        /\ The(req[r].result).error = Some(<<"File processing error: ">> \o E_TOO_LARGE)

Terminal == {"completed", "failed"}

\* C9: a job is created in status processing, and a status that is completed
\* or failed is never changed by a later step, on the job object the
\* invocation holds and on the committed row alike
C9_TerminalStatusImmutable ==
    [][ /\ \A r \in Reqs :
            (/\ IsSome(req[r].job)
             /\ IsSome(req'[r].job)
             /\ The(req[r].job).status \in Terminal)
            => The(req'[r].job).status = The(req[r].job).status
        /\ \A id \in 1..Len(jobs) :
            jobs[id].status \in Terminal => jobs'[id].status = jobs[id].status
        /\ Len(jobs') > Len(jobs) => jobs'[Len(jobs')].status = "processing"
      ]_vars

AiStages == {"profile", "prompt", "generate", "sandbox"}

\* C10: a job ends failed only when parsing failed or the row cap was
\* exceeded, and a fault in the profiler, the prompt builder, the generation
\* client, the sanitizer or the sandbox always ends in a completed job and a
\* success result with a dataset
C10_AiFaultsAbsorbed ==
    \A r \in Reqs :
        LET s == req[r] IN
        s.pc = "ret"
        => /\ (IsSome(s.job) /\ Row(s).status = "failed")
                => s.faults \cap {"format", "parse", "cap"} # {}
           /\ s.faults \cap AiStages # {}
                => /\ ~s.raised
                   /\ IsSome(s.result)
                   /\ The(s.result).success
                   /\ IsSome(The(s.result).data)
                   /\ Row(s).status = "completed"

\* the two shapes of a result
SuccessShape(res) ==
    /\ res.success
    /\ IsSome(res.data)
    /\ IsSome(res.processingSummary)
    /\ IsNone(res.error)
FailureShape(res) ==
    /\ ~res.success
    /\ IsNone(res.data)
    /\ IsNone(res.processingSummary)
    /\ IsSome(res.error)
    /\ The(res.error) # <<>>

LedgerWrites == {"create", "commit", "failcommit"}

\* the error text of a result reports a processing error that holds `text`
ReportsProcessingError(res, text) ==
    /\ ~res.success
    /\ IsSome(res.error)
    /\ Head(The(res.error)) \in {"Processing error: ", "File processing error: "}
    /\ Contains(The(res.error), text)

\* C12: process_data returns a result whatever the input and whatever stage
\* faults, a failing ledger write at job creation, at the completed update or
\* at the failed update included: no fault reaches the caller, and a failed
\* ledger write is reported as a failure result with a processing-error text
C12_AlwaysReturns ==
    \A r \in Reqs :
        LET s == req[r] IN
        s.pc = "ret"
        => /\ ~s.raised
           /\ IsSome(s.result)
           /\ s.faults \cap LedgerWrites # {}
                => ReportsProcessingError(The(s.result), E_DB)

\* what the sandbox must keep out of reach: file and console access, dynamic
\* import, dynamic evaluation
Capabilities == {"open", "__import__", "exec", "eval", "compile", "input"}

\* C13: the environment the generated code runs in gives it no way to a
\* filesystem, process, dynamic-import or dynamic-evaluation capability: no
\* executed code ever gets hold of open, __import__, exec, eval, compile or
\* input
C13_SandboxClosed ==
    \A r \in Reqs : req[r].reached \cap Capabilities = {}

\* C15: the sandbox step never changes the dataset passed to it: once
\* _apply_ai_logic has returned, with a transformed frame or an error-marked
\* one, the caller's frame has the columns, rows and values it had before the
\* call
C15_CallerFrameKept ==
    \A r \in Reqs :
        LET s == req[r] IN
        (IsSome(s.applied) /\ The(s.applied).how = "return")
        => s.df = Some(The(s.applied).before)

\* code that changes the frame in place has run, and failed half-way
C15_Witness ==
    \E r \in Reqs :
        /\ req[r].pc = "serialize"
        /\ IsSome(req[r].applied)
        /\ req[r].raw = Some(<<S_ZERO_COST, NL, S_MISSING>>)
        /\ HasCol(The(req[r].processed), "execution_error")
        /\ The(req[r].processed) # The(req[r].df)

\* C14: the sandbox step is bounded in time: whatever the generated code,
\* code that never terminates included, the step eventually ends and the
\* invocation with it
C14_SandboxEnds ==
    \A r \in Reqs : (req[r].pc = "apply") ~> (req[r].pc = "done")

\* C16: within one invocation the generation service is called at most once;
\* after a call that failed there is no second call, the pipeline goes on
\* with the error-column fallback code
C16_SingleGenerationCall ==
    \A r \in Reqs :
        LET s == req[r] IN
        /\ s.genCalls <= 1
        /\ "generate" \in s.faults
            => /\ s.genCalls = 1
               /\ s.pc # "generate"
               /\ IsNone(s.raw)
               /\ The(s.ai).code = <<S_AI_ERROR>>

C16_Witness ==
    \E r \in Reqs :
        /\ req[r].pc = "apply"
        /\ "generate" \in req[r].faults
        /\ req[r].genCalls = 1

\* the order of the stages within one invocation
StageOrder ==
    <<"authorization", "job creation", "parsing", "row cap", "profiling",
      "prompt building", "generation", "sanitizing", "sandbox", "serialization",
      "terminal update">>
Rank(stage) == CHOOSE i \in 1..Len(StageOrder) : StageOrder[i] = stage

\* C17: within one invocation the stages run only in the order authorization,
\* job creation, parsing, row-cap check, profiling, prompt building,
\* generation call, sanitizing, sandbox execution, serialization, terminal
\* job update, each at most once; the generation service is not called before
\* the row cap has passed, and the sandbox does not run on a job that has a
\* terminal status
C17_StageOrder ==
    \A r \in Reqs :
        LET s == req[r] IN
        /\ \A i \in 1..(Len(s.stages) - 1) : Rank(s.stages[i]) < Rank(s.stages[i + 1])
        /\ s.pc \in {"generate", "sanitize"} \/ s.genCalls > 0
            => /\ \E i \in 1..Len(s.stages) : s.stages[i] = "row cap"
               /\ "cap" \notin s.faults
               /\ The(s.input).rows <= RowCap
        /\ s.pc = "apply"
            => /\ \A i \in 1..Len(s.stages) : s.stages[i] # "terminal update"
               /\ The(s.job).status = "processing"
               /\ Row(s).status = "processing"

\* the job row of an invocation tells that invocation's own request and outcome
OwnOutcome(s) ==
    LET row == Row(s) IN
    /\ row.id = The(s.job).id
    /\ row.user_id = s.user_id
    /\ row.file_name = s.file_name
    /\ row.prompt = s.prompt
    /\ s.pc \notin {"ret", "commit", "fail"} => row.status = "processing"
    /\ (s.pc = "ret" /\ The(s.result).success)
        => /\ row.status = "completed"
           /\ row.processing_summary = Some(JsonDumps(The(s.summary)))
           /\ Contains(The(row.processing_summary), <<"User request: ", s.prompt>>)
           /\ IsNone(row.error_message)
    /\ (s.pc = "ret" /\ ~The(s.result).success)
        => /\ row.status = "failed"
           /\ row.error_message = Some(s.exc)
           /\ IsNone(row.processing_summary)

\* C18: invocations that run at once, in any interleaving: each authorized one
\* creates exactly one job, with an identifier no other job has; a step of an
\* invocation changes no other invocation's locals and no job row but its
\* own; and its job's status, summary and error tell its own outcome
C18_InvocationsIsolated ==
    [][ /\ \A r \in Reqs : \A o \in Reqs \ {r} :
            /\ req'[r] # req[r] => req'[o] = req[o]
            /\ (IsSome(req'[r].job) /\ IsSome(req'[o].job))
                => The(req'[r].job).id # The(req'[o].job).id
        /\ \A r \in Reqs :
            /\ IsSome(req'[r].job) => OwnOutcome(req[r])'
            /\ (IsSome(req[r].job) /\ req'[r] = req[r]) => Row(req[r])' = Row(req[r])
            /\ (IsSome(req[r].job) /\ IsSome(req'[r].job))
                => The(req'[r].job).id = The(req[r].job).id
        /\ \/ /\ Len(jobs') = Len(jobs)
           \/ /\ Len(jobs') = Len(jobs) + 1
              /\ SubSeq(jobs', 1, Len(jobs)) = jobs
              /\ \E r \in Reqs :
                    /\ IsNone(req[r].job)
                    /\ IsSome(req'[r].job)
                    /\ The(req'[r].job).id = Len(jobs')
      ]_vars

\* both invocations hold a job at once, one already returned a success, the
\* other a failure
C18_Witness ==
    /\ req["r1"].pc = "ret"
    /\ req["r2"].pc = "ret"
    /\ The(req["r1"].result).success
    /\ ~The(req["r2"].result).success
    /\ The(req["r1"].job).id = 2
    /\ The(req["r2"].job).id = 1
    /\ jobs[2].status = "completed"
    /\ jobs[1].status = "failed"

ColumnSet(df) == {df.columns[i].name : i \in 1..Len(df.columns)}

\* C19: for every dataset the pipeline returns, writing it as comma-separated
\* text and parsing that text again gives the column set and the row count
\* the dataset had right after the sandbox step
C19_CsvRoundTrip ==
    \A r \in Reqs :
        LET s == req[r] IN
        (s.pc = "ret" /\ IsSome(s.result) /\ The(s.result).success)
        => LET back == ReadCsv(The(The(s.result).data)) IN
           /\ ColumnSet(back) = ColumnSet(The(s.processed))
           /\ Len(back.columns) = Len(The(s.processed).columns)
           /\ back.rows = The(s.processed).rows

\* C20: in every state of the ledger, a job with a completed timestamp is
\* completed or failed, a job with an error message is failed, and a job in
\* status processing has no completed timestamp, no processing summary and
\* no error message
C20_LedgerConsistent ==
    \A id \in 1..Len(jobs) :
        LET j == jobs[id] IN
        /\ j.completed_at => j.status \in Terminal
        /\ IsSome(j.error_message) => j.status = "failed"
        /\ j.status = "processing"
            => /\ ~j.completed_at
               /\ IsNone(j.processing_summary)
               /\ IsNone(j.error_message)

\* the completed update was refused, and the failed update that followed is
\* in the ledger
C20_Witness ==
    \E r \in Reqs :
        /\ req[r].pc = "ret"
        /\ req[r].faults = {"commit"}
        /\ Row(req[r]).status = "failed"
        /\ Row(req[r]).error_message = Some(E_DB)

\* C21: _apply_ai_logic returns a dataset for every code text: a fault raised
\* while the generated code runs or while its result is read back (the code
\* may have bound df to a value that is no dataset) becomes an error-marked
\* dataset and never leaves _apply_ai_logic (here for code that comes to an
\* end and raises nothing but an Exception)
C21_SandboxAlwaysReturns ==
    \A r \in Reqs :
        LET s == req[r] IN
        (IsSome(s.applied) /\ The(s.applied).how \notin {"exit", "hang"})
        => /\ The(s.applied).how = "return"
           /\ IsSome(s.processed)
           /\ The(s.processed).kind = "frame"
           /\ IsSome(s.execFault) => HasCol(The(s.processed), "execution_error")

\* C22: when the generated code raises a fault in the sandbox, the output is
\* the input's columns with their values and rows, plus one error-marker
\* column: nothing the statements before the fault did is visible in it
\* (here for uploads that have no column named execution_error themselves)
C22_FaultLeavesInputIntact ==
    \A r \in Reqs :
        LET s == req[r] IN
        (/\ IsSome(s.applied)
         /\ The(s.applied).how = "return"
         /\ IsSome(s.execFault)
         /\ ~HasCol(The(s.input), "execution_error"))
        => /\ The(s.processed).rows = The(s.input).rows
           /\ Len(The(s.processed).columns) = Len(The(s.input).columns) + 1
           /\ SubSeq(The(s.processed).columns, 1, Len(The(s.input).columns))
                = The(s.input).columns
           /\ The(s.processed).columns[Len(The(s.processed).columns)].name
                = "execution_error"

\* C23: when the generated code runs to its end, the output is what df is
\* bound to at that moment: code that binds df to a frame with fewer rows or
\* other columns gives the caller exactly those rows and columns, not those
\* of the copy made before the execution
C23_ReboundFrameReturned ==
    \A r \in Reqs :
        LET s == req[r] IN
        (s.pc = "ret" /\ IsSome(s.result) /\ The(s.result).success /\ IsSome(s.raw))
        => LET data == The(The(s.result).data) IN
           /\ The(s.raw) = <<S_FILTER>>
                => /\ data.records = The(s.input).rows \div 2
                   /\ data.header = ColNames(The(s.input))
           /\ The(s.raw) = <<S_RENAME>>
                => /\ data.records = The(s.input).rows
                   /\ data.header = ColNames(Rename(The(s.input), "cost", "revenue"))

C23_Witness ==
    \E r \in Reqs :
        /\ req[r].pc = "ret"
        /\ req[r].raw = Some(<<S_FILTER>>)
        /\ The(req[r].input).rows = RowCap
        /\ The(req[r].result).success
        /\ The(The(req[r].result).data).records = RowCap \div 2

FenceMarkers == {FENCE_PY, FENCE}

\* a trimmed text without its first token and, when that is a fence marker,
\* without its last one, trimmed again
Between(t) ==
    Strip(SubSeq(t, 2, IF t[Len(t)] \in FenceMarkers /\ Len(t) > 1
                       THEN Len(t) - 1 ELSE Len(t)))

\* C24: of a raw text that after trimming begins with a fence marker, tagged
\* or bare, the sanitizer removes the opening and the closing marker only and
\* leaves what stands between them as it is (up to the trimming); a text that
\* does not begin with a fence marker is returned trimmed
C24_OnlyOuterFencesRemoved ==
    \A r \in Reqs :
        LET s == req[r] IN
        (s.pc = "apply" /\ IsSome(s.raw))
        => LET t == Strip(The(s.raw)) IN
           The(s.ai).code = IF t # <<>> /\ Head(t) \in FenceMarkers
                            THEN Between(t)
                            ELSE t

\* C25: when the sanitized code is empty (the service answered whitespace
\* only, or fence markers only) nothing is executed and this is no error:
\* the output is the input with one placeholder column added that says no
\* code was generated, no error marker is set, and the job ends completed
C25_EmptyCodePlaceholder ==
    \A r \in Reqs :
        LET s == req[r] IN
        (s.pc = "ret" /\ IsSome(s.raw) /\ Sanitize(The(s.raw)) = <<>>)
        => /\ s.execRuns = 0
           /\ IsNone(s.execFault)
           /\ IsSome(s.result)
           /\ The(s.result).success
           /\ Row(s).status = "completed"
           /\ OneMoreColumn(The(The(s.result).data), The(s.input), <<"No code generated">>)
           /\ KeepsInput(The(The(s.result).data), The(s.input))
           /\ The(The(s.result).data).header = ColNames(The(s.input)) \o <<"ai_processed">>

\* C26: process_data returns success exactly when the invocation's job is in
\* the ledger with status completed: success is returned only after the
\* completed update is committed, and an invocation whose job is committed
\* as completed returns no failure
C26_SuccessIffCompleted ==
    \A r \in Reqs :
        LET s == req[r] IN
        /\ (s.pc = "ret" /\ IsSome(s.result))
            => (The(s.result).success <=> (IsSome(s.job) /\ Row(s).status = "completed"))
        /\ (IsSome(s.job) /\ Row(s).status = "completed")
            => /\ s.pc = "ret"
               /\ IsSome(s.result)
               /\ The(s.result).success

C26_Witness ==
    \E r \in Reqs :
        /\ req[r].pc = "ret"
        /\ IsSome(req[r].result)
        /\ The(req[r].result).success
        /\ req[r].jobsAtStart # <<>>
        /\ Row(req[r]).status = "completed"
        /\ jobs[Len(jobs)].status = "completed"

\* C27: through POST /process-data an upload of more than 10MB, or one whose
\* extension is not xlsx, xls or csv, is answered HTTP 400 before the
\* authorization and before any job is created; so every request that
\* reaches process_data through the endpoint has a file name its own
\* extension check accepts, and no job created through the endpoint fails
\* with 'Unsupported file format'
C27_EndpointScreensUploads ==
    \A r \in Reqs :
        LET s == req[r] IN
        /\ s.http = 400
            => /\ s.file_size > MAX_FILE_SIZE
                    \/ FileExtension(s.file_name) \notin {"xlsx", "xls", "csv"}
               /\ s.lookups = 0
               /\ IsNone(s.job)
               /\ ~Concurrent => jobs = s.jobsAtStart
        /\ (s.via = "endpoint" /\ s.http = 0)
            => /\ s.file_size <= MAX_FILE_SIZE
               /\ IsCsv(s.file_name) \/ IsExcel(s.file_name)
               /\ "format" \notin s.faults
               /\ s.exc # E_UNSUPPORTED
               /\ IsSome(s.job) => Row(s).error_message # Some(E_UNSUPPORTED)

\* an upload named like the extension, without a dot, has been refused
C27_Witness ==
    \E r \in Reqs :
        /\ req[r].pc = "done"
        /\ req[r].http = 400
        /\ req[r].file_name = <<"csv">>
        /\ req[r].file_size = MAX_FILE_SIZE
        /\ jobs # <<>>

\* ------------------------------------------------- account and waitlist services

\* the state of process_data and of its endpoint
processing == <<users, jobs, settings, dbFaults, req>>

\* no upload is processed in this run
ProcessingQuiet ==
    /\ users = [u \in {"user_alice", "user_bob"} |-> UserRow(u = "user_alice")]
    /\ jobs = <<>>
    /\ settings = [OPENAI_API_KEY |-> "sk-test"]
    /\ dbFaults = FALSE
    /\ req = [r \in Reqs |-> Off]

\* the step of a call: its locals change, nothing else of the callers does
Call(c, rec) == calls' = [calls EXCEPT ![c] = rec]

\* a row of r_users: the primary key, username, the legacy user_id (absent
\* for accounts made by signup), is_active and access_count (default 0)
Account(id, name, uid, active) ==
    [id |-> id, username |-> name, user_id |-> uid, is_active |-> active,
     access_count |-> 0]

\* the usernames the signup calls carry
Usernames == {"dana", "eli"}

M_USERNAME_EXISTS == "Username already exists"
M_ACCOUNT_CREATED == "Account created successfully"

\* AuthResponse
AuthResponse(success, message, user) ==
    [success |-> success, message |-> message, user |-> user]

\* db.query(User).filter(User.username == username).first()
ByUsername(rows, name) == {a \in rows : a.username = name}

\* (a table without the unique index on username)
UsernameTakenNever(rows, name) == FALSE

\* the unique index on r_users.username: an insert of a name the table holds
\* raises IntegrityError
UsernameTaken(rows, name) == ByUsername(rows, name) # {}

\* signup, lines 21-26: the username is looked up; a call that finds it
\* returns 'Username already exists'
SignupQuery(c) ==
    /\ calls[c].pc = "idle"
    /\ \E name \in Usernames :
        IF ByUsername(accounts, name) # {}
        THEN Call(c, [NoCall EXCEPT !.pc = "done", !.arg = name,
                        !.result = Some(AuthResponse(FALSE, M_USERNAME_EXISTS, None))])
        ELSE Call(c, [NoCall EXCEPT !.pc = "insert", !.arg = name, !.passed = TRUE])
    /\ UNCHANGED <<processing, accounts, waitlist, mail>>

\* signup, lines 29-40 and 64-70: the new user is added and committed; the
\* commit of a taken username raises IntegrityError, the handler rolls the
\* session back and returns 'Username already exists'
SignupCommit(c) ==
    /\ calls[c].pc = "insert"
    /\ IF UsernameTaken(accounts, calls[c].arg)
       THEN /\ Call(c, [calls[c] EXCEPT !.pc = "done",
                          !.result = Some(AuthResponse(FALSE, M_USERNAME_EXISTS, None))])
            /\ UNCHANGED accounts
       ELSE /\ accounts' = accounts \cup {Account("id_" \o c, calls[c].arg, None, TRUE)}
            /\ Call(c, [calls[c] EXCEPT !.pc = "respond", !.wrote = TRUE])
    /\ UNCHANGED <<processing, waitlist, mail>>

\* signup, lines 41-62: the row is read back, the token made and the success
\* response returned
SignupRespond(c) ==
    /\ calls[c].pc = "respond"
    /\ Call(c, [calls[c] EXCEPT !.pc = "done",
                  !.result = Some(AuthResponse(TRUE, M_ACCOUNT_CREATED, Some("id_" \o c)))])
    /\ UNCHANGED <<processing, accounts, waitlist, mail>>

\* the accounts the signup calls find: none, or dana's
InitSignup ==
    /\ ProcessingQuiet
    /\ accounts \in {{}, {Account("id_0", "dana", None, TRUE)}}
    /\ waitlist = {}
    /\ mail = [configured |-> FALSE, outbox |-> <<>>]
    /\ calls = [c \in Callers |-> NoCall]

NextSignup ==
    \E c \in Callers :
        \/ SignupQuery(c)
        \/ SignupCommit(c)
        \/ SignupRespond(c)

\* signup calls in worker processes of their own, their steps interleaved
SignupSpec == InitSignup /\ [][NextSignup]_vars

\* C28: however concurrent signup calls with the same username interleave, at
\* most one of them returns success, the store never holds two users of that
\* username, and every other call returns 'Username already exists' and has
\* written nothing to the store
C28_OneSignupWins ==
    \A name \in Usernames :
        LET ended == {c \in Callers : calls[c].pc = "done" /\ calls[c].arg = name}
            won == {c \in ended : The(calls[c].result).success}
        IN /\ Cardinality(won) <= 1
           /\ Cardinality(ByUsername(accounts, name)) <= 1
           /\ \A c \in ended \ won :
                /\ The(calls[c].result).message = M_USERNAME_EXISTS
                /\ ~calls[c].wrote
                /\ \A a \in accounts : a.id # "id_" \o c
           /\ \A c \in won :
                \E a \in accounts : a.id = The(The(calls[c].result).user) /\ a.username = name

\* two calls passed the lookup with the same free username; one returned
\* success, the other returned 'Username already exists' from its commit
C28_Witness ==
    \E c, d \in Callers :
        /\ c # d
        /\ calls[c].pc = "done" /\ calls[d].pc = "done"
        /\ calls[c].arg = "eli" /\ calls[d].arg = "eli"
        /\ The(calls[c].result).success
        /\ calls[d].passed
        /\ The(calls[d].result).message = M_USERNAME_EXISTS

\* the elements of a sequence
Range(s) == {s[i] : i \in DOMAIN s}

\* the addresses the waitlist calls carry
Emails == {"ann@example.com", "ben@example.com"}

M_ALREADY_LISTED == "Email already on waitlist"
M_LISTED == "Successfully added to waitlist and email sent!"
X_NO_CREDENTIALS == "Gmail credentials not set in environment variables."
X_SMTP == "[SMTPException]"
X_INTEGRITY == "[IntegrityError]"

\* the message of the handler at lines 79-85
ErrorAdding(text) == "Error adding to waitlist: " \o text

\* the dictionary add_to_waitlist returns
WaitlistResult(success, message, count) ==
    [success |-> success, message |-> message, waitlist_count |-> count]

\* a row of r_waitlist
WaitlistRow(id, email) == [id |-> id, email |-> email, status |-> "pending"]

\* (a lookup that finds no entry)
AlreadyListedNever(rows, email) == FALSE

\* db.query(Waitlist).filter(Waitlist.email == email).first()
AlreadyListed(rows, email) == \E w \in rows : w.email = email

\* send_waitlist_email: without credentials it raises at once; with them the
\* server accepts the message or login or sending raises
SendOutcomes(configured) ==
    IF ~configured THEN {X_NO_CREDENTIALS} ELSE {"sent", X_SMTP}

\* add_to_waitlist, lines 53-59: the address is looked up; a call that finds
\* it returns 'Email already on waitlist'
WaitlistQuery(c) ==
    /\ calls[c].pc = "idle"
    /\ \E email \in Emails :
        IF AlreadyListed(waitlist, email)
        THEN Call(c, [NoCall EXCEPT !.pc = "done", !.arg = email, !.listed = TRUE,
                        !.result = Some(WaitlistResult(FALSE, M_ALREADY_LISTED, None))])
        ELSE Call(c, [NoCall EXCEPT !.pc = "insert", !.arg = email, !.passed = TRUE])
    /\ UNCHANGED <<processing, accounts, waitlist, mail>>

\* add_to_waitlist, lines 62-65 and 79-85: the entry is added and committed;
\* the unique index on email makes the commit of a listed address raise, and
\* the handler rolls back and returns the error
WaitlistCommit(c) ==
    /\ calls[c].pc = "insert"
    /\ IF AlreadyListed(waitlist, calls[c].arg)
       THEN /\ Call(c, [calls[c] EXCEPT !.pc = "done",
                          !.result = Some(WaitlistResult(FALSE, ErrorAdding(X_INTEGRITY), None))])
            /\ UNCHANGED waitlist
       ELSE /\ waitlist' = waitlist \cup {WaitlistRow("id_" \o c, calls[c].arg)}
            /\ Call(c, [calls[c] EXCEPT !.pc = "send", !.wrote = TRUE])
    /\ UNCHANGED <<processing, accounts, mail>>

\* add_to_waitlist, lines 68 and 79-85: the email is sent; when sending raises,
\* the handler rolls back a session that has nothing pending and returns the
\* error
WaitlistSend(c) ==
    /\ calls[c].pc = "send"
    /\ \E out \in SendOutcomes(mail.configured) :
        IF out = "sent"
        THEN /\ mail' = [mail EXCEPT !.outbox =
                            Append(@, [to |-> calls[c].arg, waitlist_id |-> "id_" \o c])]
             /\ Call(c, [calls[c] EXCEPT !.pc = "count"])
        ELSE /\ Call(c, [calls[c] EXCEPT !.pc = "done",
                           !.result = Some(WaitlistResult(FALSE, ErrorAdding(out), None))])
             /\ UNCHANGED mail
    /\ UNCHANGED <<processing, accounts, waitlist>>

\* add_to_waitlist, lines 71-77: the entries are counted and the success
\* dictionary returned
WaitlistCount(c) ==
    /\ calls[c].pc = "count"
    /\ Call(c, [calls[c] EXCEPT !.pc = "done",
                  !.result = Some(WaitlistResult(TRUE, M_LISTED, Some(Cardinality(waitlist))))])
    /\ UNCHANGED <<processing, accounts, waitlist, mail>>

\* an empty waitlist; mail credentials set or not
InitWaitlist ==
    /\ ProcessingQuiet
    /\ accounts = {}
    /\ waitlist = {}
    /\ mail \in {[configured |-> b, outbox |-> <<>>] : b \in BOOLEAN}
    /\ calls = [c \in Callers |-> NoCall]

NextWaitlist ==
    \E c \in Callers :
        \/ WaitlistQuery(c)
        \/ WaitlistCommit(c)
        \/ WaitlistSend(c)
        \/ WaitlistCount(c)

\* add_to_waitlist calls, their steps interleaved
WaitlistSpec == InitWaitlist /\ [][NextWaitlist]_vars

\* the calls that added the entry of the address and returned a failure
\* because sending raised
SendFailed(email) ==
    {c \in Callers : /\ calls[c].pc = "done"
                     /\ calls[c].arg = email
                     /\ calls[c].wrote
                     /\ ~The(calls[c].result).success}

\* a call that begins in this step
Begins(c) == calls[c].pc = "idle" /\ calls'[c].pc # "idle"

\* C29: the entry is committed before the email is sent; when sending fails
\* (also for want of credentials) the call returns a failure, the entry stays
\* on the waitlist and no email is ever sent for it, and every later call with
\* that address returns 'Email already on waitlist'
C29_EntryOutlivesFailedSend ==
    /\ [](\A m \in Range(mail.outbox) : AlreadyListed(waitlist, m.to))
    /\ [](\A email \in Emails : \A c \in SendFailed(email) :
            /\ WaitlistRow("id_" \o c, email) \in waitlist
            /\ \A m \in Range(mail.outbox) : m.to # email)
    /\ [][\A c \in Callers :
            (Begins(c) /\ SendFailed(calls'[c].arg) # {})
                => /\ calls'[c].pc = "done"
                   /\ The(calls'[c].result) = WaitlistResult(FALSE, M_ALREADY_LISTED, None)
                   /\ waitlist' = waitlist
                   /\ mail' = mail]_vars

\* with credentials set, sending failed for an address, and a later call
\* with that address was told it is already on the waitlist
C29_Witness ==
    \E c, d \in Callers :
        /\ c # d
        /\ mail.configured
        /\ c \in SendFailed(calls[d].arg)
        /\ The(calls[c].result).message = ErrorAdding(X_SMTP)
        /\ calls[d].pc = "done"
        /\ calls[d].listed
        /\ The(calls[d].result).message = M_ALREADY_LISTED

M_INVALID_USER == "Invalid User ID"

\* the dictionary validate_user_id returns
Validation(allowed, success, error) ==
    [allowed |-> allowed, success |-> success, error |-> error]

\* db.query(User).filter(User.user_id == user_id, User.is_active == True).first()
ActiveByUserId(rows, uid) == {a \in rows : a.user_id = Some(uid) /\ a.is_active}

\* user.access_count += 1 on the object the session loaded: the value the
\* commit writes is the loaded one plus one
Incremented(loaded) == [loaded EXCEPT !.access_count = @ + 1]

\* validate_user_id, lines 14-24 and 36-41: the administrator identifier is
\* allowed without a query; any other is looked up, and a call that finds no
\* active user returns 'Invalid User ID'
ValidateLookup(c) ==
    /\ calls[c].pc = "idle"
    /\ \E uid \in UserIds :
        IF uid = ADMIN_USER_ID
        THEN Call(c, [NoCall EXCEPT !.pc = "done", !.arg = uid,
                        !.result = Some(Validation(TRUE, TRUE, None))])
        ELSE IF ActiveByUserId(accounts, uid) = {}
        THEN Call(c, [NoCall EXCEPT !.pc = "done", !.arg = uid,
                        !.result = Some(Validation(FALSE, TRUE, Some(M_INVALID_USER)))])
        ELSE \E a \in ActiveByUserId(accounts, uid) :
                Call(c, [NoCall EXCEPT !.pc = "count", !.arg = uid, !.passed = TRUE,
                           !.seen = Some(a)])
    /\ UNCHANGED <<processing, accounts, waitlist, mail>>

\* validate_user_id, lines 28-35: the count of the loaded object is raised and
\* committed (UPDATE r_users SET access_count = <value> WHERE id = <id>), and
\* the call returns allowed
ValidateCommit(c) ==
    /\ calls[c].pc = "count"
    /\ LET loaded == The(calls[c].seen) IN
        accounts' = {IF a.id = loaded.id
                     THEN [a EXCEPT !.access_count = Incremented(loaded).access_count]
                     ELSE a : a \in accounts}
    /\ Call(c, [calls[c] EXCEPT !.pc = "done", !.wrote = TRUE,
                  !.result = Some(Validation(TRUE, TRUE, None))])
    /\ UNCHANGED <<processing, waitlist, mail>>

\* alice active, bob deactivated, ghost unknown, the administrator identifier
\* with a row or without; every access count 0
InitValidate ==
    /\ ProcessingQuiet
    /\ \E admin \in SUBSET {Account("id_3", "root", Some(ADMIN_USER_ID), TRUE)} :
        accounts = {Account("id_1", "alice", Some("user_alice"), TRUE),
                    Account("id_2", "bob", Some("user_bob"), FALSE)} \cup admin
    /\ waitlist = {}
    /\ mail = [configured |-> FALSE, outbox |-> <<>>]
    /\ calls = [c \in Callers |-> NoCall]

NextValidate ==
    \E c \in Callers :
        \/ ValidateLookup(c)
        \/ ValidateCommit(c)

\* validate_user_id calls in worker processes of their own, their steps
\* interleaved
ValidateSpec == InitValidate /\ [][NextValidate]_vars

\* the calls for the user that have returned allowed = true
Allowed(uid) ==
    {c \in Callers : /\ calls[c].pc = "done"
                     /\ calls[c].arg = uid
                     /\ The(calls[c].result).allowed}

\* C30: each validate_user_id call for an active user other than the
\* administrator that returns allowed = true raises that user's access count
\* by one, also when calls run concurrently (after N calls the count has grown
\* by N); calls for the administrator identifier, an unknown or an inactive
\* identifier change no count
C30_AccessCounted ==
    \A a \in accounts :
        IF a.is_active /\ a.user_id # Some(ADMIN_USER_ID)
        THEN a.access_count = Cardinality(Allowed(The(a.user_id)))
        ELSE a.access_count = 0

====
